---- MODULE Spec2Model ----
(***************************************************************************)
(* A model of the prosolia feature-extraction pipeline:                    *)
(*   prosolia/pipeline.py  load_audio, apply_gammatone, apply_dct,          *)
(*                         apply_pitch                                      *)
(*   prosolia/main.py      parse_args, main, CatchExceptions                *)
(*                                                                          *)
(* main runs one step per action.  apply_pitch is split at the points where *)
(* the operating system, the external tool or the user can act between two  *)
(* of its statements (mkdtemp, the binding of tempdir, the manifest, Popen, *)
(* wait, loadtxt, the indexing, the finally clause and rmtree).            *)
(* Arrays are symbolic: an element of the filterbank output names the       *)
(* center-frequency rank and the time frame it was computed for, and an     *)
(* element of the DCT names the vector it was computed from.               *)
(***************************************************************************)
EXTENDS Integers, Sequences, FiniteSets, TLC

\* bounds of the explored inputs
MaxChannels == 2      \* nb_channels ranges over 1..MaxChannels
MaxFrames == 2        \* number of energy windows gtgram produces
MaxSize == 3          \* config [dct] size ranges over 1..MaxSize
MaxRows == 2          \* rows of the tool's output file
MaxCode == 2          \* exit codes of the tool: 0..MaxCode
MaxAudioChannels == 2 \* channels of the input wav file: 1..MaxAudioChannels
NCalls == 2           \* concurrent calls of apply_pitch
MaxNames == 2         \* directory names mkdtemp can draw

Min(x, y) == IF x < y THEN x ELSE y

-----------------------------------------------------------------------------
(* Python values *)

\* An exception: its class, and for the RuntimeError of apply_pitch the
\* command and the exit code formatted into its message;
\* origin names the statement that raised it.
Exc(kind, origin) == [kind |-> kind, origin |-> origin, command |-> <<>>, returncode |-> -1]
NoExc == Exc("none", "none")

\* A string object: its text, and whether it is the same object as the
\* literal 'ortho' compiled into pipeline.py.  Only a string whose text is
\* "ortho" can be that object.  A string built at run time by configparser
\* is equal to the literal without having to be the same object (CPython
\* builds a new object; the language leaves it open).
Str(text, same) == [text |-> text, isLiteral |-> same]
NormTexts == {"ortho", "none"}
ConfigStrings == {Str(t, s) : t \in NormTexts, s \in BOOLEAN } \ {Str("none", TRUE)}

CompressionIds == {"log", "cubic", "none"}

\* the None object, as a value of the compression parameter
PyNone == "<None>"
\* what a direct caller can pass as compression: the two keys, None (the
\* default), and strings that are no key of the dictionary
CompressionArgs == CompressionIds \cup {PyNone, "sqrt", "LOG"}

-----------------------------------------------------------------------------
(* numpy / scipy / gammatone operations on symbolic arrays *)

\* shape of a 2D array held as a sequence of rows
Shape(m) == <<Len(m), IF Len(m) = 0 THEN 0 ELSE Len(m[1])>>

\* erb_space(low, high, n): n center frequencies, highest first.  A
\* frequency is modelled by its rank, 1 = lowest.
erb_space(n) == [i \in 1..n |-> n + 1 - i]

\* x[::-1]
Reversed(s) == [i \in 1..Len(s) |-> s[Len(s) + 1 - i]]

\* gtgram(data, fs, window_time, overlap_time, nb_channels, low_cf): one row
\* per channel, in the order of erb_space (highest center frequency first),
\* one column per energy window.
gtgram(nb_channels, ncols) ==
    [c \in 1..nb_channels |->
        [t \in 1..ncols |-> [cf |-> erb_space(nb_channels)[c], frame |-> t, op |-> "id"]]]

\* np.flipud: reverse the first axis
flipud(m) == Reversed(m)

\* the compress dictionary and its lookup, KeyError ignored
Compress(compression, output) ==
    IF compression \in {"log", "cubic"}
    THEN [i \in 1..Len(output) |->
            [j \in 1..Len(output[i]) |-> [output[i][j] EXCEPT !.op = compression]]]
    ELSE output

\* the keys of the compress dictionary
CompressKeys == {"log", "cubic"}

\* an except clause naming another class
ExceptCatches_wrongClass(kind) == kind = "IndexError"
\* except KeyError: the class the handler around the lookup catches
ExceptCatches(kind) == kind = "KeyError"

\* `norm is not 'ortho'`: an identity test against the literal
IsOrthoLiteral(norm) == norm.isLiteral

\* the norm scipy is given
NormArg(norm) == IF ~IsOrthoLiteral(norm) THEN "None" ELSE "ortho"

\* the axis scipy.fftpack.dct is told to transform along
DctAxis == 0

\* dct(data, type=2, axis=axis, norm=norm): the output has the shape of the
\* input; coefficient k of the vector taken along the axis.
dct2(data, axis, norm) ==
    [i \in 1..Len(data) |->
        [j \in 1..Len(data[i]) |->
            IF axis = 0
            THEN [k |-> i - 1, norm |-> norm,
                  x |-> [r \in 1..Len(data) |-> data[r][j]]]
            ELSE [k |-> j - 1, norm |-> norm,
                  x |-> data[i]]]]

\* m[:size, :] for size >= 0
FirstRows(m, size) == SubSeq(m, 1, Min(size, Len(m)))

\* pipeline.apply_gammatone: (output, center_frequencies)
apply_gammatone(nb_channels, ncols, compression) ==
    <<Compress(compression, flipud(gtgram(nb_channels, ncols))),
      Reversed(erb_space(nb_channels))>>

\* the transform taken along the second axis
apply_dct_axis1(data, norm, size) ==
    FirstRows(dct2(data, 1, NormArg(norm)), size)
\* pipeline.apply_dct
apply_dct(data, norm, size) ==
    FirstRows(dct2(data, DctAxis, NormArg(norm)), size)

-----------------------------------------------------------------------------
(* the tool's output file and np.loadtxt *)

Vals == {0, 1}

\* a file: whether every row parses as numbers, and the rows after the
\* header line.  A row holds the two columns read and a third one that
\* usecols drops.
Rows == {<<v, p, 2>> : v \in Vals, p \in Vals}
NoFile == [numeric |-> FALSE, rows |-> <<>>]
Files == {[numeric |-> TRUE, rows |-> r] : r \in UNION {[1..n -> Rows] : n \in 1..MaxRows}}
            \cup {NoFile}

\* np.loadtxt(pitch, skiprows=1, usecols=(0, 1)) on a numeric file: the
\* first two columns of every row, squeezed: a file of one row gives a 1D
\* array of two numbers, ndim 1.
loadtxt(file) ==
    IF Len(file.rows) = 1
    THEN [ndim |-> 1, data |-> <<file.rows[1][1], file.rows[1][2]>>]
    ELSE [ndim |-> 2,
          data |-> [i \in 1..Len(file.rows) |-> <<file.rows[i][1], file.rows[i][2]>>]]
NoArray == [ndim |-> 0, data |-> <<>>]

\* a[:, c] is defined for a 2D array only
CanIndex2D(a) == a.ndim = 2
\* a[:, c].T for the 0-based column c: transposing a 1D array changes nothing
Column(a, c) == [i \in 1..Len(a.data) |-> a.data[i][c + 1]]

-----------------------------------------------------------------------------
(* command line: parse_args *)

\* strings that matter character by character are sequences of characters
WavPath == <<"a", ".", "w", "a", "v">>
OutPath == <<"o", "u", "t", ".", "m", "a", "t">>
NoneOpt == [given |-> FALSE, value |-> <<>>]
OutputOpts == {NoneOpt, [given |-> TRUE, value |-> OutPath]}

\* index of the last "." of a path with no directory part, 0 if none
RECURSIVE LastDot(_, _)
LastDot(path, i) ==
    IF i = 0 THEN 0 ELSE IF path[i] = "." THEN i ELSE LastDot(path, i - 1)

\* os.path.splitext(path)[0]
SplitextRoot(path) ==
    IF LastDot(path, Len(path)) <= 1 THEN path
    ELSE SubSeq(path, 1, LastDot(path, Len(path)) - 1)

\* args.output as parse_args leaves it
ParsedOutput(wav, output) ==
    IF ~output.given THEN SplitextRoot(wav) \o <<".", "m", "a", "t">>
    ELSE <<output.value[1]>>

-----------------------------------------------------------------------------
(* apply_pitch: names and the command *)

\* the command string: kaldi_pitch, the sample frequency flag, the manifest
\* and the output, one token each
Command == <<"compute-kaldi-pitch-feats", "--sample-frequency", "scp:wav.scp", "ark,t:pitch.txt">>

\* shlex.split(command): the tokens of the command
ShlexSplit(command) == command

\* the assert left out
ExecutableFound_unchecked(present) == TRUE
\* the assert of apply_pitch: os.path.isfile(kaldi_pitch)
ExecutableFound(present) == present

\* only exit code 1 taken as a failure
ToolFailed_onlyOne(rc) == rc = 1
\* job.returncode != 0
ToolFailed(rc) == rc # 0

\* the RuntimeError of apply_pitch
ToolError(command, rc) ==
    [Exc("RuntimeError", "returncode") EXCEPT !.command = command, !.returncode = rc]

\* the classes CatchExceptions handles with 'fatal error: ...'
FatalClasses == {"IOError", "OSError", "RuntimeError", "AssertionError"}

-----------------------------------------------------------------------------
(* state *)

VARIABLES
    \* the environment of the run
    argv,            \* [output, plot]: the command line options
    config,          \* [nb_channels, compression, normalize, size]
    kaldi_present,   \* the executable exists under kaldi_root
    \* main
    mpc,             \* the statement main is at
    args,            \* [wav, output, plot] once parsed
    loadCount,       \* calls of load_audio
    audio,           \* channels of the array load_audio returned, 0 before
    ncols,           \* energy windows of the loaded audio, 0 before
    energy, center_frequencies, dct, pov, pitch,
    saved,           \* what savemat wrote: <<>> or <<the bundle>>
    plotted,         \* plot_pipeline was called
    mainExc,         \* the exception that left main()
    stderr, exitStatus,
    \* apply_pitch
    ppc,             \* the statement apply_pitch is at
    dirExists,       \* the temporary directory is on disk
    dirCreated,      \* mkdtemp created a directory in this call
    tempdir,         \* the local name tempdir is bound
    scp,             \* the manifest: "absent" or "closed" (written and closed)
    job,             \* the tool process: "none", "running", "exited"
    jobArgv,         \* what Popen was given
    returncode,      \* exit code of the tool, -1 before it exits
    spawnCount,      \* processes spawned
    pitch_txt,       \* the tool's output file
    parseCount,      \* calls of np.loadtxt
    a,               \* the array loadtxt returned
    exc,             \* the exception pending when the finally clause runs
    ret,             \* the value pending when the finally clause runs
    firstFailure,    \* origin of the first failure of the call, "none" if none
    interrupted,     \* a KeyboardInterrupt was delivered
    rmtreeFailed,    \* shutil.rmtree raised
    pitchExc,        \* the exception apply_pitch ended with
    pitchResult,     \* the value apply_pitch returned, <<>> if none
    \* a direct call of apply_gammatone
    gpc,             \* the statement apply_gammatone is at, "off" if not called
    g_args,          \* [nb_channels, ncols, compression] of the call
    g_cf,            \* center_frequencies
    g_flipped,       \* what np.flipud returned
    g_output,        \* output
    g_exc,           \* the exception the call ended with
    g_result,        \* the value returned, <<>> before
    \* concurrent calls of apply_pitch on one file system
    calls,           \* per call: [pc, made, tempdir, job, exc]
    dirs,            \* names of the temporary directories on disk
    owner,           \* per name: the call whose mkdtemp made the directory, 0 if none
    files,           \* per name: who wrote wav.scp and pitch.txt in it, 0 if absent
    foreign          \* the accesses of a call to a directory it does not own

gammatoneVars == <<gpc, g_args, g_cf, g_flipped, g_output, g_exc, g_result>>
parVars == <<calls, dirs, owner, files, foreign>>

\* what no step of a run of main changes
envVars == <<argv, config, kaldi_present, gammatoneVars, parVars>>
mainVars == <<mpc, args, loadCount, audio, ncols, energy, center_frequencies, dct, pov, pitch,
              saved, plotted, mainExc, stderr, exitStatus>>
pitchVars == <<ppc, dirExists, dirCreated, tempdir, scp, job, jobArgv, returncode,
               spawnCount, pitch_txt, parseCount, a, exc, ret, firstFailure,
               interrupted, rmtreeFailed, pitchExc, pitchResult>>
vars == <<envVars, mainVars, pitchVars>>

Calls == 1..NCalls
Names == 1..MaxNames
NoFiles == [scp |-> 0, pitch |-> 0]
CallAt(pc) == [pc |-> pc, made |-> 0, tempdir |-> 0, job |-> "none", exc |-> "none"]

\* no concurrent calls are made
ParOff ==
    /\ calls = [c \in Calls |-> CallAt("off")]
    /\ dirs = {}
    /\ owner = [n \in Names |-> 0]
    /\ files = [n \in Names |-> NoFiles]
    /\ foreign = {}

NoArgs == [wav |-> <<>>, output |-> <<>>, plot |-> FALSE]

NoCall == [nb_channels |-> 0, ncols |-> 0, compression |-> PyNone]

\* no direct call of apply_gammatone is made
GammatoneOff ==
    /\ gpc = "off"
    /\ g_args = NoCall
    /\ g_cf = <<>> /\ g_flipped = <<>> /\ g_output = <<>>
    /\ g_exc = NoExc /\ g_result = <<>>

\* main before its first statement, apply_pitch not called
RunInit ==
    /\ mpc = "parse_args"
    /\ args = NoArgs
    /\ loadCount = 0
    /\ audio = 0
    /\ ncols = 0
    /\ energy = <<>> /\ center_frequencies = <<>> /\ dct = <<>>
    /\ pov = <<>> /\ pitch = <<>>
    /\ saved = <<>>
    /\ plotted = FALSE
    /\ mainExc = NoExc
    /\ stderr = "" /\ exitStatus = -1
    /\ ppc = "idle"
    /\ dirExists = FALSE /\ dirCreated = FALSE /\ tempdir = FALSE
    /\ scp = "absent"
    /\ job = "none" /\ jobArgv = <<>> /\ returncode = -1 /\ spawnCount = 0
    /\ pitch_txt = NoFile /\ parseCount = 0 /\ a = NoArray
    /\ exc = NoExc /\ ret = <<>>
    /\ firstFailure = "none" /\ interrupted = FALSE /\ rmtreeFailed = FALSE
    /\ pitchExc = NoExc /\ pitchResult = <<>>

Init ==
    /\ argv \in [output : OutputOpts, plot : BOOLEAN]
    /\ config \in [nb_channels : 1..MaxChannels, compression : CompressionIds,
                   normalize : ConfigStrings, size : 1..MaxSize]
    /\ kaldi_present \in BOOLEAN
    /\ RunInit
    /\ GammatoneOff
    /\ ParOff

-----------------------------------------------------------------------------
(* main *)

\* an exception leaves the body of main
MainRaise(e) ==
    /\ mainExc' = e
    /\ mpc' = "raised"

\* args = parse_args(argv); config.read(args.config); the log set-up
M_ParseArgs ==
    /\ mpc = "parse_args"
    /\ args' = [wav |-> WavPath, output |-> ParsedOutput(WavPath, argv.output),
                plot |-> argv.plot]
    /\ mpc' = "load_audio"
    /\ UNCHANGED <<envVars, pitchVars, loadCount, audio, ncols, energy, center_frequencies,
                   dct, pov, pitch, saved, plotted, mainExc, stderr, exitStatus>>

\* pipeline.load_audio on a file soundfile can read: soundfile.read gives one
\* column per channel of the file, and the array is returned as read
load_audio(channels) == [raised |-> FALSE, channels |-> channels]

\* audio, sample_frequency = pipeline.load_audio(args.wav)
\* soundfile.read raises RuntimeError on a file it cannot open or decode
M_LoadAudio ==
    /\ mpc = "load_audio"
    /\ loadCount' = loadCount + 1
    /\ \/ \E channels \in 1..MaxAudioChannels :
            IF load_audio(channels).raised
            THEN MainRaise(Exc("RuntimeError", "load_audio")) /\ UNCHANGED <<audio, ncols>>
            ELSE /\ audio' = load_audio(channels).channels
                 /\ ncols' \in 1..MaxFrames
                 /\ mpc' = "apply_gammatone"
                 /\ UNCHANGED mainExc
       \/ /\ MainRaise(Exc("RuntimeError", "load_audio"))
          /\ UNCHANGED <<audio, ncols>>
    /\ UNCHANGED <<envVars, pitchVars, args, energy, center_frequencies,
                   dct, pov, pitch, saved, plotted, stderr, exitStatus>>

\* energy, center_frequencies = pipeline.apply_gammatone(...)
\* a config lookup of the arguments can raise configparser.NoOptionError;
\* gtgram is written for a 1D signal: on an array of several columns its
\* filterbank cannot store a filtered band and raises ValueError
M_ApplyGammatone ==
    /\ mpc = "apply_gammatone"
    /\ \/ /\ audio = 1
          /\ energy' = apply_gammatone(config.nb_channels, ncols, config.compression)[1]
          /\ center_frequencies' =
                apply_gammatone(config.nb_channels, ncols, config.compression)[2]
          /\ mpc' = "apply_dct"
          /\ UNCHANGED mainExc
       \/ /\ audio # 1
          /\ MainRaise(Exc("ValueError", "apply_gammatone"))
          /\ UNCHANGED <<energy, center_frequencies>>
       \/ /\ MainRaise(Exc("NoOptionError", "apply_gammatone"))
          /\ UNCHANGED <<energy, center_frequencies>>
    /\ UNCHANGED <<envVars, pitchVars, args, loadCount, audio, ncols,
                   dct, pov, pitch, saved, plotted, stderr, exitStatus>>

\* dct = pipeline.apply_dct(energy, norm=config.get(...), size=config.getint(...))
M_ApplyDct ==
    /\ mpc = "apply_dct"
    /\ \/ /\ dct' = apply_dct(energy, config.normalize, config.size)
          /\ mpc' = "apply_pitch"
          /\ UNCHANGED mainExc
       \/ /\ MainRaise(Exc("NoOptionError", "apply_dct"))
          /\ UNCHANGED dct
    /\ UNCHANGED <<envVars, pitchVars, args, loadCount, audio, ncols, energy,
                   center_frequencies, pov, pitch, saved, plotted, stderr, exitStatus>>

\* pipeline.apply_pitch(config['pitch']['kaldi_root'], args.wav, sample_frequency):
\* the arguments are evaluated (KeyError if the section or key is missing)
\* and the call starts
M_CallPitch ==
    /\ mpc = "apply_pitch" /\ ppc = "idle"
    /\ \/ /\ ppc' = "locate"
          /\ UNCHANGED <<mpc, mainExc>>
       \/ /\ MainRaise(Exc("KeyError", "apply_pitch"))
          /\ UNCHANGED ppc
    /\ UNCHANGED <<envVars, args, loadCount, audio, ncols, energy, center_frequencies, dct,
                   pov, pitch, saved, plotted, stderr, exitStatus,
                   dirExists, dirCreated, tempdir, scp, job, jobArgv, returncode,
                   spawnCount, pitch_txt, parseCount, a, exc, ret, firstFailure,
                   interrupted, rmtreeFailed, pitchExc, pitchResult>>

\* a failure of apply_pitch caught and the run going on without pitch
M_PitchDone_swallow ==
    /\ mpc = "apply_pitch" /\ ppc \in {"returned", "raised"}
    /\ pov' = IF ppc = "returned" THEN pitchResult[1] ELSE <<>>
    /\ pitch' = IF ppc = "returned" THEN pitchResult[2] ELSE <<>>
    /\ mpc' = "savemat"
    /\ ppc' = "left"
    /\ UNCHANGED <<envVars, args, loadCount, audio, ncols, energy, center_frequencies, dct,
                   saved, plotted, mainExc, stderr, exitStatus,
                   dirExists, dirCreated, tempdir, scp, job, jobArgv, returncode,
                   spawnCount, pitch_txt, parseCount, a, exc, ret, firstFailure,
                   interrupted, rmtreeFailed, pitchExc, pitchResult>>

\* pov, pitch = <what apply_pitch returned>, or its exception goes on
M_PitchDone ==
    /\ mpc = "apply_pitch" /\ ppc \in {"returned", "raised"}
    /\ IF ppc = "returned"
       THEN /\ pov' = pitchResult[1]
            /\ pitch' = pitchResult[2]
            /\ mpc' = "savemat"
            /\ UNCHANGED mainExc
       ELSE /\ MainRaise(pitchExc)
            /\ UNCHANGED <<pov, pitch>>
    /\ ppc' = "left"
    /\ UNCHANGED <<envVars, args, loadCount, audio, ncols, energy, center_frequencies, dct,
                   saved, plotted, stderr, exitStatus,
                   dirExists, dirCreated, tempdir, scp, job, jobArgv, returncode,
                   spawnCount, pitch_txt, parseCount, a, exc, ret, firstFailure,
                   interrupted, rmtreeFailed, pitchExc, pitchResult>>

\* the dictionary main hands to sio.savemat
Bundle ==
    [path |-> args.output, wav |-> args.wav, center_frequencies |-> center_frequencies,
     energy |-> energy, dct |-> dct, pitch |-> pitch, pov |-> pov]

\* sio.savemat(args.output, {...}); OSError if the file cannot be written
M_Savemat ==
    /\ mpc = "savemat"
    /\ \/ /\ saved' = <<Bundle>>
          /\ mpc' = IF args.plot THEN "plot" ELSE "done"
          /\ exitStatus' = IF args.plot THEN exitStatus ELSE 0
          /\ UNCHANGED mainExc
       \/ /\ MainRaise(Exc("OSError", "savemat"))
          /\ UNCHANGED <<saved, exitStatus>>
    /\ UNCHANGED <<envVars, pitchVars, args, loadCount, audio, ncols, energy,
                   center_frequencies, dct, pov, pitch, plotted, stderr>>

\* if args.plot: plot.plot_pipeline(...)
M_Plot ==
    /\ mpc = "plot"
    /\ plotted' = TRUE
    /\ mpc' = "done"
    /\ exitStatus' = 0
    /\ UNCHANGED <<envVars, pitchVars, args, loadCount, audio, ncols, energy,
                   center_frequencies, dct, pov, pitch, saved, mainExc, stderr>>

\* the user interrupts main outside apply_pitch
M_Interrupt ==
    /\ mpc \in {"parse_args", "load_audio", "apply_gammatone", "apply_dct", "savemat", "plot"}
    /\ MainRaise(Exc("KeyboardInterrupt", "signal"))
    /\ interrupted' = TRUE
    /\ UNCHANGED <<envVars, args, loadCount, audio, ncols, energy, center_frequencies, dct,
                   pov, pitch, saved, plotted, stderr, exitStatus,
                   ppc, dirExists, dirCreated, tempdir, scp, job, jobArgv, returncode,
                   spawnCount, pitch_txt, parseCount, a, exc, ret, firstFailure,
                   rmtreeFailed, pitchExc, pitchResult>>

\* CatchExceptions.__call__: the except clauses, and _exit; an exception of
\* another class leaves __call__ and the interpreter ends with a traceback
M_CatchExceptions ==
    /\ mpc = "raised"
    /\ IF mainExc.kind \in FatalClasses
       THEN stderr' = "fatal error" /\ mpc' = "exited"
       ELSE IF mainExc.kind = "KeyboardInterrupt"
       THEN stderr' = "keyboard interruption, exiting" /\ mpc' = "exited"
       ELSE stderr' = "traceback" /\ mpc' = "uncaught"
    /\ exitStatus' = 1
    /\ UNCHANGED <<envVars, pitchVars, args, loadCount, audio, ncols, energy,
                   center_frequencies, dct, pov, pitch, saved, plotted, mainExc>>

-----------------------------------------------------------------------------
(* apply_pitch *)

\* the variables of apply_pitch no step of it changes but through these
PitchFrame == <<envVars, mainVars>>

\* an exception raised inside the try block: control goes to the finally
\* clause with the exception pending
TryRaise(e) ==
    /\ exc' = e
    /\ ret' = <<>>
    /\ firstFailure' = IF firstFailure = "none" /\ e.kind # "KeyboardInterrupt"
                       THEN e.origin ELSE firstFailure
    /\ ppc' = "finally"

\* an exception leaves apply_pitch
PitchRaise(e) ==
    /\ pitchExc' = e
    /\ firstFailure' = IF firstFailure = "none" /\ e.kind # "KeyboardInterrupt"
                       THEN e.origin ELSE firstFailure
    /\ ppc' = "raised"

\* kaldi_pitch = os.path.join(...); assert os.path.isfile(kaldi_pitch)
P_Locate ==
    /\ ppc = "locate"
    /\ IF ExecutableFound(kaldi_present)
       THEN ppc' = "mkdtemp" /\ UNCHANGED <<pitchExc, firstFailure>>
       ELSE PitchRaise(Exc("AssertionError", "assert"))
    /\ UNCHANGED <<PitchFrame, dirExists, dirCreated, tempdir, scp, job, jobArgv,
                   returncode, spawnCount, pitch_txt, parseCount, a, exc, ret,
                   interrupted, rmtreeFailed, pitchResult>>

\* tempfile.mkdtemp(): the directory is made, or OSError
P_Mkdtemp ==
    /\ ppc = "mkdtemp"
    /\ \/ /\ dirExists' = TRUE
          /\ dirCreated' = TRUE
          /\ ppc' = "bind"
          /\ UNCHANGED <<exc, ret, firstFailure>>
       \/ /\ TryRaise(Exc("OSError", "mkdtemp"))
          /\ UNCHANGED <<dirExists, dirCreated>>
    /\ UNCHANGED <<PitchFrame, tempdir, scp, job, jobArgv, returncode, spawnCount,
                   pitch_txt, parseCount, a, interrupted, rmtreeFailed, pitchExc,
                   pitchResult>>

\* tempdir = <the directory mkdtemp made>
P_Bind ==
    /\ ppc = "bind"
    /\ tempdir' = TRUE
    /\ ppc' = "manifest"
    /\ UNCHANGED <<PitchFrame, dirExists, dirCreated, scp, job, jobArgv, returncode,
                   spawnCount, pitch_txt, parseCount, a, exc, ret, firstFailure,
                   interrupted, rmtreeFailed, pitchExc, pitchResult>>

\* the manifest written but left open when the call goes on
P_Manifest_unclosed ==
    /\ ppc = "manifest"
    /\ \/ /\ scp' = "open"
          /\ ppc' = "popen"
          /\ UNCHANGED <<exc, ret, firstFailure>>
       \/ /\ TryRaise(Exc("OSError", "manifest"))
          /\ UNCHANGED scp
    /\ UNCHANGED <<PitchFrame, dirExists, dirCreated, tempdir, job, jobArgv,
                   returncode, spawnCount, pitch_txt, parseCount, a, interrupted,
                   rmtreeFailed, pitchExc, pitchResult>>

\* with open(scp, 'w') as fscp: fscp.write(...): written and closed, or OSError
P_Manifest ==
    /\ ppc = "manifest"
    /\ \/ /\ scp' = "closed"
          /\ ppc' = "popen"
          /\ UNCHANGED <<exc, ret, firstFailure>>
       \/ /\ TryRaise(Exc("OSError", "manifest"))
          /\ UNCHANGED scp
    /\ UNCHANGED <<PitchFrame, dirExists, dirCreated, tempdir, job, jobArgv,
                   returncode, spawnCount, pitch_txt, parseCount, a, interrupted,
                   rmtreeFailed, pitchExc, pitchResult>>

\* job = subprocess.Popen(shlex.split(command), cwd=tempdir, ...): the process
\* starts, or OSError
P_Popen ==
    /\ ppc = "popen"
    /\ \/ /\ job' = "running"
          /\ jobArgv' = ShlexSplit(Command)
          /\ spawnCount' = spawnCount + 1
          /\ ppc' = "wait"
          /\ UNCHANGED <<exc, ret, firstFailure>>
       \/ /\ TryRaise(Exc("OSError", "popen"))
          /\ UNCHANGED <<job, jobArgv, spawnCount>>
    /\ UNCHANGED <<PitchFrame, dirExists, dirCreated, tempdir, scp, returncode,
                   pitch_txt, parseCount, a, interrupted, rmtreeFailed, pitchExc,
                   pitchResult>>

\* the tool ends: it leaves its exit code, and on exit code 0 its output
\* file if the directory is still there
T_Exit ==
    /\ job = "running"
    /\ job' = "exited"
    /\ \E rc \in 0..MaxCode :
        /\ returncode' = rc
        /\ IF rc = 0 /\ dirExists
           THEN pitch_txt' \in Files
           ELSE UNCHANGED pitch_txt
    /\ UNCHANGED <<PitchFrame, ppc, dirExists, dirCreated, tempdir, scp, jobArgv,
                   spawnCount, parseCount, a, exc, ret, firstFailure, interrupted,
                   rmtreeFailed, pitchExc, pitchResult>>

\* job.wait() returns; if job.returncode != 0: raise RuntimeError(...)
P_Wait ==
    /\ ppc = "wait" /\ job = "exited"
    /\ IF ToolFailed(returncode)
       THEN TryRaise(ToolError(Command, returncode))
       ELSE ppc' = "loadtxt" /\ UNCHANGED <<exc, ret, firstFailure>>
    /\ UNCHANGED <<PitchFrame, dirExists, dirCreated, tempdir, scp, job, jobArgv,
                   returncode, spawnCount, pitch_txt, parseCount, a, interrupted,
                   rmtreeFailed, pitchExc, pitchResult>>

\* a = np.loadtxt(pitch, skiprows=1, usecols=(0, 1)); ValueError on a file
\* that does not hold numbers
P_Loadtxt ==
    /\ ppc = "loadtxt"
    /\ parseCount' = parseCount + 1
    /\ IF pitch_txt.numeric
       THEN /\ a' = loadtxt(pitch_txt)
            /\ ppc' = "index"
            /\ UNCHANGED <<exc, ret, firstFailure>>
       ELSE /\ TryRaise(Exc("ValueError", "loadtxt"))
            /\ UNCHANGED a
    /\ UNCHANGED <<PitchFrame, dirExists, dirCreated, tempdir, scp, job, jobArgv,
                   returncode, spawnCount, pitch_txt, interrupted, rmtreeFailed,
                   pitchExc, pitchResult>>

\* return a[:, 0].T, a[:, 1].T; IndexError if a is not 2D
P_Index ==
    /\ ppc = "index"
    /\ IF CanIndex2D(a)
       THEN /\ ret' = <<Column(a, 0), Column(a, 1)>>
            /\ ppc' = "finally"
            /\ UNCHANGED <<exc, firstFailure>>
       ELSE TryRaise(Exc("IndexError", "index"))
    /\ UNCHANGED <<PitchFrame, dirExists, dirCreated, tempdir, scp, job, jobArgv,
                   returncode, spawnCount, pitch_txt, parseCount, a, interrupted,
                   rmtreeFailed, pitchExc, pitchResult>>

\* finally: the argument of shutil.rmtree(tempdir) is evaluated;
\* UnboundLocalError if tempdir was never bound
P_Finally ==
    /\ ppc = "finally"
    /\ IF tempdir
       THEN ppc' = "rmtree" /\ UNCHANGED <<pitchExc, firstFailure>>
       ELSE PitchRaise(Exc("UnboundLocalError", "finally"))
    /\ UNCHANGED <<PitchFrame, dirExists, dirCreated, tempdir, scp, job, jobArgv,
                   returncode, spawnCount, pitch_txt, parseCount, a, exc, ret,
                   interrupted, rmtreeFailed, pitchResult>>

\* shutil.rmtree(tempdir): the directory is removed and the pending exception
\* or value goes on, or rmtree raises OSError, which takes their place
P_Rmtree ==
    /\ ppc = "rmtree"
    /\ \/ /\ dirExists' = FALSE
          /\ IF exc # NoExc
             THEN PitchRaise(exc) /\ UNCHANGED pitchResult
             ELSE /\ pitchResult' = ret
                  /\ ppc' = "returned"
                  /\ UNCHANGED <<pitchExc, firstFailure>>
          /\ UNCHANGED rmtreeFailed
       \/ /\ rmtreeFailed' = TRUE
          /\ PitchRaise(Exc("OSError", "rmtree"))
          /\ UNCHANGED <<dirExists, pitchResult>>
    /\ UNCHANGED <<PitchFrame, dirCreated, tempdir, scp, job, jobArgv, returncode,
                   spawnCount, pitch_txt, parseCount, a, exc, ret, interrupted>>

\* the user interrupts apply_pitch: KeyboardInterrupt is raised at the
\* statement being executed
P_Interrupt ==
    /\ ppc \in {"locate", "mkdtemp", "bind", "manifest", "popen", "wait", "loadtxt",
                "index", "finally", "rmtree"}
    /\ interrupted' = TRUE
    /\ IF ppc \in {"locate", "finally", "rmtree"}
       THEN PitchRaise(Exc("KeyboardInterrupt", "signal")) /\ UNCHANGED <<exc, ret>>
       ELSE TryRaise(Exc("KeyboardInterrupt", "signal")) /\ UNCHANGED pitchExc
    /\ UNCHANGED <<PitchFrame, dirExists, dirCreated, tempdir, scp, job, jobArgv,
                   returncode, spawnCount, pitch_txt, parseCount, a, rmtreeFailed,
                   pitchResult>>

-----------------------------------------------------------------------------

Next ==
    \/ M_ParseArgs \/ M_LoadAudio \/ M_ApplyGammatone \/ M_ApplyDct
    \/ M_CallPitch \/ M_PitchDone \/ M_Savemat \/ M_Plot
    \/ M_Interrupt \/ M_CatchExceptions
    \/ P_Locate \/ P_Mkdtemp \/ P_Bind \/ P_Manifest \/ P_Popen \/ T_Exit
    \/ P_Wait \/ P_Loadtxt \/ P_Index \/ P_Finally \/ P_Rmtree \/ P_Interrupt

Spec == Init /\ [][Next]_vars

-----------------------------------------------------------------------------
(* apply_gammatone called directly, statement by statement *)

\* the variables of a run of main, which a direct call leaves alone
RunFrame == <<argv, config, kaldi_present, mainVars, pitchVars, parVars>>

\* center_frequencies = erb_space(low_cf, sample_frequency/2, nb_channels)[::-1]
G_CenterFrequencies ==
    /\ gpc = "erb_space"
    /\ g_cf' = Reversed(erb_space(g_args.nb_channels))
    /\ gpc' = "gtgram"
    /\ UNCHANGED <<RunFrame, g_args, g_flipped, g_output, g_exc, g_result>>

\* output = np.flipud(gtgram(...))
G_Filterbank ==
    /\ gpc = "gtgram"
    /\ g_flipped' = flipud(gtgram(g_args.nb_channels, g_args.ncols))
    /\ g_output' = g_flipped'
    /\ gpc' = "compress"
    /\ UNCHANGED <<RunFrame, g_args, g_cf, g_exc, g_result>>

\* try: output = compress[compression](output) / except KeyError: pass
\* the lookup of a value that is no key raises KeyError
G_Compress ==
    /\ gpc = "compress"
    /\ IF g_args.compression \in CompressKeys \/ ExceptCatches("KeyError")
       THEN /\ g_output' = Compress(g_args.compression, g_output)
            /\ gpc' = "return"
            /\ UNCHANGED g_exc
       ELSE /\ g_exc' = Exc("KeyError", "compress")
            /\ gpc' = "raised"
            /\ UNCHANGED g_output
    /\ UNCHANGED <<RunFrame, g_args, g_cf, g_flipped, g_result>>

\* return output, center_frequencies
G_Return ==
    /\ gpc = "return"
    /\ g_result' = <<g_output, g_cf>>
    /\ gpc' = "returned"
    /\ UNCHANGED <<RunFrame, g_args, g_cf, g_flipped, g_output, g_exc>>

InitGammatone ==
    /\ argv = [output |-> NoneOpt, plot |-> FALSE]
    /\ config = [nb_channels |-> 1, compression |-> "none",
                 normalize |-> Str("none", FALSE), size |-> 1]
    /\ kaldi_present = TRUE
    /\ RunInit
    /\ gpc = "erb_space"
    /\ g_args \in [nb_channels : 1..MaxChannels, ncols : 1..MaxFrames,
                   compression : CompressionArgs]
    /\ g_cf = <<>> /\ g_flipped = <<>> /\ g_output = <<>>
    /\ g_exc = NoExc /\ g_result = <<>>
    /\ ParOff

NextGammatone == G_CenterFrequencies \/ G_Filterbank \/ G_Compress \/ G_Return

SpecGammatone == InitGammatone /\ [][NextGammatone]_vars

TypeOK ==
    /\ mpc \in {"parse_args", "load_audio", "apply_gammatone", "apply_dct", "apply_pitch",
                "savemat", "plot", "done", "raised", "exited", "uncaught"}
    /\ ppc \in {"idle", "locate", "mkdtemp", "bind", "manifest", "popen", "wait",
                "loadtxt", "index", "finally", "rmtree", "returned", "raised", "left"}
    /\ job \in {"none", "running", "exited"}
    /\ returncode \in -1..MaxCode
    /\ Len(saved) <= 1

-----------------------------------------------------------------------------
(* concurrent calls of apply_pitch: each call runs the statements of        *)
(* apply_pitch on the shared file system; the tool of a call is a process   *)
(* of its own                                                               *)

\* the variables one run of main and a direct call of apply_gammatone use
SoloFrame == <<argv, config, kaldi_present, mainVars, pitchVars, gammatoneVars>>

\* a fixed directory name, whatever is on disk
MkdtempNames_fixed(existing) == {1}
\* the names tempfile.mkdtemp() can return: mkdtemp makes the directory with
\* an exclusive mkdir, so never under a name that exists
MkdtempNames(existing) == Names \ existing

\* the call has not ended
Running(c) == calls[c].pc \notin {"off", "returned", "raised"}

\* call c touches the directory named n: noted if the directory is not the
\* one its own mkdtemp made
Access(c, n, op) ==
    foreign' = IF owner[n] = c THEN foreign
               ELSE foreign \cup {[call |-> c, op |-> op, owner |-> owner[n]]}

\* an exception inside the try block of call c
QTry(c, kind) ==
    calls' = [calls EXCEPT ![c].exc = kind, ![c].pc = "finally"]

\* assert os.path.isfile(kaldi_pitch)
Q_Locate(c) ==
    /\ calls[c].pc = "locate"
    /\ calls' = [calls EXCEPT ![c].pc =
                    IF ExecutableFound(kaldi_present) THEN "mkdtemp" ELSE "raised",
                              ![c].exc =
                    IF ExecutableFound(kaldi_present) THEN "none" ELSE "AssertionError"]
    /\ UNCHANGED <<SoloFrame, dirs, owner, files, foreign>>

\* tempfile.mkdtemp(): a directory is made under a name it draws, or OSError
Q_Mkdtemp(c) ==
    /\ calls[c].pc = "mkdtemp"
    /\ \/ \E n \in MkdtempNames(dirs) :
            /\ dirs' = dirs \cup {n}
            /\ owner' = IF n \in dirs THEN owner ELSE [owner EXCEPT ![n] = c]
            /\ files' = IF n \in dirs THEN files ELSE [files EXCEPT ![n] = NoFiles]
            /\ calls' = [calls EXCEPT ![c].made = n, ![c].pc = "bind"]
       \/ /\ QTry(c, "OSError")
          /\ UNCHANGED <<dirs, owner, files>>
    /\ UNCHANGED <<SoloFrame, foreign>>

\* tempdir = <the directory mkdtemp made>
Q_Bind(c) ==
    /\ calls[c].pc = "bind"
    /\ calls' = [calls EXCEPT ![c].tempdir = calls[c].made, ![c].pc = "manifest"]
    /\ UNCHANGED <<SoloFrame, dirs, owner, files, foreign>>

\* scp = os.path.join(tempdir, 'wav.scp'); with open(scp, 'w') ...
Q_Manifest(c) ==
    /\ calls[c].pc = "manifest"
    /\ \/ /\ calls[c].tempdir \in dirs
          /\ files' = [files EXCEPT ![calls[c].tempdir].scp = c]
          /\ Access(c, calls[c].tempdir, "write wav.scp")
          /\ calls' = [calls EXCEPT ![c].pc = "popen"]
       \/ /\ QTry(c, "OSError")
          /\ UNCHANGED <<files, foreign>>
    /\ UNCHANGED <<SoloFrame, dirs, owner>>

\* job = subprocess.Popen(shlex.split(command), cwd=tempdir, ...)
Q_Popen(c) ==
    /\ calls[c].pc = "popen"
    /\ \/ calls' = [calls EXCEPT ![c].job = "running", ![c].pc = "wait"]
       \/ QTry(c, "OSError")
    /\ UNCHANGED <<SoloFrame, dirs, owner, files, foreign>>

\* the tool of call c ends; on exit code 0 it has written pitch.txt under the
\* path it was given, if a directory of that name is there.  The write is
\* an access of the call as long as the call has not ended; a tool left
\* running by an interrupted call writes after its call, and files records
\* what it wrote.
QT_Exit(c) ==
    /\ calls[c].job = "running"
    /\ \E rc \in 0..MaxCode :
        /\ calls' = [calls EXCEPT ![c].job = IF ToolFailed(rc) THEN "failed" ELSE "succeeded"]
        /\ IF ~ToolFailed(rc) /\ calls[c].tempdir \in dirs
           THEN /\ files' = [files EXCEPT ![calls[c].tempdir].pitch = c]
                /\ IF Running(c)
                   THEN Access(c, calls[c].tempdir, "write pitch.txt")
                   ELSE UNCHANGED foreign
           ELSE UNCHANGED <<files, foreign>>
    /\ UNCHANGED <<SoloFrame, dirs, owner>>

\* job.wait() returns; if job.returncode != 0: raise RuntimeError(...)
Q_Wait(c) ==
    /\ calls[c].pc = "wait" /\ calls[c].job \in {"failed", "succeeded"}
    /\ IF calls[c].job = "failed"
       THEN QTry(c, "RuntimeError")
       ELSE calls' = [calls EXCEPT ![c].pc = "loadtxt"]
    /\ UNCHANGED <<SoloFrame, dirs, owner, files, foreign>>

\* a = np.loadtxt(pitch, ...); return a[:, 0].T, a[:, 1].T: the file is
\* read, and the two statements end with a value or with an exception
Q_Loadtxt(c) ==
    /\ calls[c].pc = "loadtxt"
    /\ IF calls[c].tempdir \in dirs
       THEN Access(c, calls[c].tempdir, "read pitch.txt")
       ELSE UNCHANGED foreign
    /\ \/ calls' = [calls EXCEPT ![c].pc = "finally"]
       \/ \E kind \in {"ValueError", "IndexError"} : QTry(c, kind)
    /\ UNCHANGED <<SoloFrame, dirs, owner, files>>

\* finally: the argument of shutil.rmtree(tempdir) is evaluated
Q_Finally(c) ==
    /\ calls[c].pc = "finally"
    /\ calls' = IF calls[c].tempdir # 0
                THEN [calls EXCEPT ![c].pc = "rmtree"]
                ELSE [calls EXCEPT ![c].pc = "raised", ![c].exc = "UnboundLocalError"]
    /\ UNCHANGED <<SoloFrame, dirs, owner, files, foreign>>

\* shutil.rmtree(tempdir): the directory of that name goes with its files,
\* or rmtree raises OSError
Q_Rmtree(c) ==
    /\ calls[c].pc = "rmtree"
    /\ \/ /\ calls[c].tempdir \in dirs
          /\ dirs' = dirs \ {calls[c].tempdir}
          /\ owner' = [owner EXCEPT ![calls[c].tempdir] = 0]
          /\ files' = [files EXCEPT ![calls[c].tempdir] = NoFiles]
          /\ Access(c, calls[c].tempdir, "rmtree")
          /\ calls' = [calls EXCEPT ![c].pc =
                          IF calls[c].exc = "none" THEN "returned" ELSE "raised"]
       \/ /\ calls' = [calls EXCEPT ![c].pc = "raised", ![c].exc = "OSError"]
          /\ UNCHANGED <<dirs, owner, files, foreign>>
    /\ UNCHANGED SoloFrame

\* the user interrupts call c
Q_Interrupt(c) ==
    /\ calls[c].pc \in {"locate", "mkdtemp", "bind", "manifest", "popen", "wait",
                        "loadtxt", "finally", "rmtree"}
    /\ calls' = [calls EXCEPT ![c].exc = "KeyboardInterrupt",
                              ![c].pc = IF calls[c].pc \in {"locate", "finally", "rmtree"}
                                        THEN "raised" ELSE "finally"]
    /\ UNCHANGED <<SoloFrame, dirs, owner, files, foreign>>

InitConcurrent ==
    /\ argv = [output |-> NoneOpt, plot |-> FALSE]
    /\ config = [nb_channels |-> 1, compression |-> "none",
                 normalize |-> Str("none", FALSE), size |-> 1]
    /\ kaldi_present \in BOOLEAN
    /\ RunInit
    /\ GammatoneOff
    /\ calls = [c \in Calls |-> CallAt("locate")]
    /\ dirs = {}
    /\ owner = [n \in Names |-> 0]
    /\ files = [n \in Names |-> NoFiles]
    /\ foreign = {}

NextConcurrent ==
    \E c \in Calls :
        \/ Q_Locate(c) \/ Q_Mkdtemp(c) \/ Q_Bind(c) \/ Q_Manifest(c) \/ Q_Popen(c)
        \/ QT_Exit(c) \/ Q_Wait(c) \/ Q_Loadtxt(c) \/ Q_Finally(c) \/ Q_Rmtree(c)
        \/ Q_Interrupt(c)

SpecConcurrent == InitConcurrent /\ [][NextConcurrent]_vars

-----------------------------------------------------------------------------
(* properties *)

\* apply_pitch was called and has ended
PitchExited == ppc \in {"returned", "raised", "left"}

\* the failures of apply_pitch that the error taxonomy names, by the
\* statement that raises them: missing executable, workspace not created,
\* workspace not removed, nonzero exit, malformed output
TaxonomyOrigins == {"assert", "mkdtemp", "rmtree", "returncode", "loadtxt"}

\* the failures of the four components of a run
ComponentOrigins == {"load_audio", "apply_gammatone", "apply_dct", "apply_pitch",
                     "assert", "mkdtemp", "manifest", "popen", "returncode",
                     "loadtxt", "index", "finally", "rmtree"}

\* C1: once apply_pitch has created its temporary directory, the directory is
\* gone when the call has ended, on every exit path on which rmtree itself
\* did not fail, an interruption after the creation included.
C1_DirectoryRemovedOnEveryExit ==
    (PitchExited /\ dirCreated /\ ~rmtreeFailed) => ~dirExists

\* C2: with the executable absent, no process is ever spawned and no
\* temporary directory is ever created, the call never returns a value, and
\* unless the user interrupted it first it ends with the AssertionError of
\* the check.
C2_MissingExecutableFailsFirst ==
    ~kaldi_present =>
        /\ spawnCount = 0 /\ job = "none"
        /\ ~dirCreated /\ ~dirExists
        /\ ppc \in {"idle", "locate", "raised", "left"}
        /\ pitchResult = <<>>
        /\ (PitchExited /\ ~interrupted) =>
                (pitchExc.kind = "AssertionError" /\ mainExc.kind \in {"none", "AssertionError"})

\* the call has ended with the missing-executable error
C2_Witness ==
    ~kaldi_present /\ ppc = "raised" /\ pitchExc.kind = "AssertionError"

\* C3: once the tool has exited with a nonzero code, it was spawned exactly
\* once and is never spawned again, its output is never parsed and no value
\* is returned; and when the call has ended without an interruption and with
\* rmtree succeeding, it ended with the RuntimeError carrying the command
\* given to Popen and the exit code, and the temporary directory is gone.
C3_NonzeroExitIsFatal ==
    (job = "exited" /\ returncode # 0) =>
        /\ spawnCount = 1
        /\ parseCount = 0
        /\ pitchResult = <<>> /\ ppc # "returned"
        /\ (PitchExited /\ ~interrupted /\ ~rmtreeFailed) =>
                /\ pitchExc.kind = "RuntimeError"
                /\ pitchExc.command = jobArgv /\ jobArgv # <<>>
                /\ pitchExc.returncode = returncode
                /\ ~dirExists

\* the call has ended with the execution error of a nonzero exit
C3_Witness ==
    /\ ppc = "raised" /\ job = "exited" /\ returncode = MaxCode
    /\ pitchExc.kind = "RuntimeError" /\ ~interrupted /\ ~rmtreeFailed

\* C4: the bundle is written, and the plot drawn after it, only when
\* load_audio ran exactly once and apply_gammatone, apply_dct and apply_pitch
\* all returned; the bundle written holds all their results; and a run in
\* which one of them failed has written nothing and plotted nothing.
C4_BundleOnlyAfterAllSucceed ==
    /\ loadCount <= 1
    /\ (saved # <<>> \/ plotted \/ mpc \in {"savemat", "plot", "done"}) =>
            /\ loadCount = 1 /\ ncols > 0
            /\ energy # <<>> /\ center_frequencies # <<>> /\ dct # <<>>
            /\ ppc = "left" /\ pitchExc = NoExc /\ pitchResult # <<>>
            /\ pov = pitchResult[1] /\ pitch = pitchResult[2]
    /\ saved # <<>> =>
            /\ saved[1].energy = energy /\ saved[1].dct = dct
            /\ saved[1].center_frequencies = center_frequencies
            /\ saved[1].pov = pov /\ saved[1].pitch = pitch
    /\ plotted => saved # <<>>
    /\ mainExc.origin \in ComponentOrigins => (saved = <<>> /\ ~plotted)
    /\ (mpc \in {"raised", "exited", "uncaught"} /\ pitchExc # NoExc) => saved = <<>>

\* a complete run: the bundle written and plotted
C4_Witness ==
    mpc = "done" /\ saved # <<>> /\ plotted /\ Len(saved[1].pitch) = MaxRows

\* C5: a failure of the taxonomy inside apply_pitch ends the call with the
\* exception of that failure, not with another one.
C5_OwnErrorReachesCaller ==
    (PitchExited /\ firstFailure \in TaxonomyOrigins /\ ~interrupted) =>
        pitchExc.origin = firstFailure

\* C6: for an output file of N >= 1 numeric rows, apply_pitch returns the
\* first column and the second column, each of length N in file order.
C6_TwoColumnsOfEqualLength ==
    (PitchExited /\ parseCount = 1 /\ pitch_txt.numeric /\ ~interrupted /\ ~rmtreeFailed) =>
        /\ pitchExc = NoExc
        /\ pitchResult = <<[i \in 1..Len(pitch_txt.rows) |-> pitch_txt.rows[i][1]],
                           [i \in 1..Len(pitch_txt.rows) |-> pitch_txt.rows[i][2]]>>

\* C7: the transform main obtains is orthonormal exactly when the configured
\* normalization equals 'ortho'.
C7_OrthoExactlyWhenEqual ==
    dct # <<>> => (dct[1][1].norm = "ortho" <=> config.normalize.text = "ortho")

\* C8: apply_dct never returns normally when size exceeds the channel count
\* of its input.
C8_SizeBeyondChannelsRejected ==
    dct # <<>> => config.size <= config.nb_channels

\* C9: a run goes on after apply_dct only with the row count of the energy
\* matrix equal to the column count of the DCT matrix.
C9_EnergyRowsAreDctColumns ==
    (dct # <<>> /\ mpc \in {"apply_pitch", "savemat", "plot", "done"}) =>
        Shape(energy)[1] = Shape(dct)[2]

C14_EveryFailureExitsFriendly ==
    (mainExc # NoExc /\ mpc # "raised") =>
        /\ mpc = "exited"
        /\ stderr \in {"fatal error", "keyboard interruption, exiting"}
        /\ exitStatus = 1

\* C15: in one apply_pitch call the manifest is written and closed before the
\* tool is spawned, the output file is read only after the tool has exited
\* with code 0 and while the directory is there, and the directory is
\* removed only after the output was read or with a failure pending.
C15_StepsInOrder ==
    /\ (spawnCount > 0 \/ job # "none" \/ ppc = "wait") => scp = "closed"
    /\ (parseCount > 0 \/ ppc \in {"loadtxt", "index"}) =>
            (job = "exited" /\ returncode = 0 /\ spawnCount = 1 /\ dirCreated)
    /\ ppc \in {"loadtxt", "index"} => dirExists
    /\ (dirCreated /\ ~dirExists) => (parseCount = 1 \/ exc # NoExc)
    /\ (dirCreated /\ ~dirExists /\ exc = NoExc) => (ret # <<>> /\ a # NoArray)

\* a call that returned: manifest, tool, output read, directory removed
C15_Witness ==
    ppc = "returned" /\ parseCount = 1 /\ dirCreated /\ ~dirExists /\ scp = "closed"

\* C16: when apply_pitch has ended, the tool process it spawned is not
\* running.
C16_NoToolLeftRunning ==
    PitchExited => job # "running"

\* C17: args.output is the whole string given with -o/--output, or the wav
\* path with its extension replaced by .mat, and savemat writes to that path.
C17_OutputPath ==
    /\ args # NoArgs =>
            args.output = IF argv.output.given THEN argv.output.value
                          ELSE SplitextRoot(WavPath) \o <<".", "m", "a", "t">>
    /\ saved # <<>> => saved[1].path = args.output


\* C13: load_audio never hands data of a channel count other than 1 to the
\* rest of the pipeline.
C13_MultiChannelRejected ==
    audio # 0 => audio = 1


\* C11: a direct call of apply_gammatone with a compression that is neither
\* 'log' nor 'cubic' raises nothing and returns the flipped filterbank output
\* as np.flipud gave it, element for element.
C11_UnknownCompressionPassesThrough ==
    (g_args.compression \notin {"log", "cubic"} /\ gpc \in {"return", "returned", "raised"}) =>
        /\ gpc # "raised" /\ g_exc = NoExc
        /\ g_output = g_flipped
        /\ g_output = flipud(gtgram(g_args.nb_channels, g_args.ncols))
        /\ \A i \in 1..Len(g_output) : \A j \in 1..Len(g_output[i]) :
                g_output[i][j].op = "id"
        /\ gpc = "returned" => g_result = <<g_flipped, Reversed(erb_space(g_args.nb_channels))>>

\* a call with compression None has returned
C11_Witness ==
    gpc = "returned" /\ g_args.compression = PyNone /\ g_result # <<>>


\* a call holds a directory: its mkdtemp has made one and its rmtree has not
\* removed it
Holds(c) ==
    /\ calls[c].made # 0
    /\ calls[c].pc \in {"bind", "manifest", "popen", "wait", "loadtxt", "finally", "rmtree"}

\* C12: in every interleaving of the concurrent calls, two calls never hold
\* the same directory, the directory a call holds is on disk and is the one
\* its own mkdtemp made, and no call writes its manifest, has its tool write
\* the output while it waits, reads the output or runs rmtree in a directory
\* made by another call.
C12_CallsKeepToTheirOwnDirectory ==
    /\ \A c \in Calls : \A d \in Calls \ {c} :
            (Holds(c) /\ Holds(d)) => calls[c].made # calls[d].made
    /\ \A c \in Calls : Holds(c) =>
            /\ calls[c].made \in dirs
            /\ owner[calls[c].made] = c
            /\ calls[c].tempdir \in {0, calls[c].made}
            /\ files[calls[c].made].scp \in {0, c}
    /\ foreign = {}

\* two calls are at work at once, one waiting for its tool and one about to
\* read its output, each with its own manifest in its directory
C12_Witness ==
    \E c \in Calls : \E d \in Calls \ {c} :
        /\ calls[c].pc = "wait" /\ calls[d].pc = "loadtxt"
        /\ files[calls[c].tempdir].scp = c /\ files[calls[d].tempdir].scp = d

=============================================================================
